---- MODULE Spec2Model ----
(***************************************************************************)
(* Model of bot.py: the TruckersMP event bot.  The bot loads the last      *)
(* snapshot from events_db.json, fetches the current events, diffs the two *)
(* snapshots, posts one webhook message per change, saves the fetched      *)
(* snapshot, sleeps 10 seconds and repeats; after 24 hours it re-executes  *)
(* itself.                                                                 *)
(*                                                                         *)
(* JSON values are tagged records: Null, Str(s), Num(i), Obj(f).  A Python *)
(* dict that is iterated (a snapshot, a diffs mapping) is a sequence of    *)
(* pairs in insertion order; an event is a function from its keys to JSON  *)
(* values.                                                                 *)
(***************************************************************************)
EXTENDS Integers, Sequences, FiniteSets, TLC

\* ------------------------------------------------------------------------
\* JSON values
\* ------------------------------------------------------------------------
Null == [t |-> "null"]

Str(s) == [t |-> "str", s |-> s]

Num(i) == [t |-> "int", i |-> i]

Obj(f) == [t |-> "obj", o |-> f]

IsDict(v) == v.t = "obj"

\* Python truthiness of a JSON value (the `if old_val:` tests).
Truthy(v) ==
    CASE v.t = "null" -> FALSE
      [] v.t = "str"  -> v.s # ""
      [] v.t = "int"  -> v.i # 0
      [] v.t = "obj"  -> DOMAIN v.o # {}
      [] OTHER        -> TRUE

\* dict.get(key): the value, or None when the key is absent.
Get(d, key) == IF key \in DOMAIN d THEN d[key] ELSE Null

\* str(v) as an f-string renders it ("None" for None).
PyStr(v) ==
    CASE v.t = "null" -> "None"
      [] v.t = "str"  -> v.s
      [] v.t = "int"  -> ToString(v.i)
      [] OTHER        -> "{...}"

\* ------------------------------------------------------------------------
\* Ordered dicts: a sequence of <<key, value>> pairs with distinct keys
\* ------------------------------------------------------------------------
EmptyDict == <<>>

Keys(d) == {d[i][1] : i \in 1..Len(d)}

\* d[key] for a key of d.
Lookup(d, key) == d[CHOOSE i \in 1..Len(d) : d[i][1] = key][2]

\* d[key] = val: a new key is appended, an old key keeps its position.
DictSet(d, key, val) ==
    IF key \in Keys(d)
    THEN [i \in 1..Len(d) |-> IF d[i][1] = key THEN <<key, val>> ELSE d[i]]
    ELSE Append(d, <<key, val>>)

\* ------------------------------------------------------------------------
\* discord_timestamp
\* ------------------------------------------------------------------------
\* datetime.strptime(s, "%Y-%m-%d %H:%M:%S") read as UTC, as unix seconds,
\* on the raw strings the model uses; every other string fails to parse.
\* strptime accepts a month or day without its leading zero, so two raw
\* strings can name the same instant.
StrptimeUTC ==
    [s \in {"2024-01-01 10:00:00", "2024-1-1 10:00:00", "2024-01-01 10:00:01"} |->
        CASE s = "2024-01-01 10:00:00" -> 1704103200
          [] s = "2024-1-1 10:00:00"   -> 1704103200
          [] s = "2024-01-01 10:00:01" -> 1704103201]

\* Variant of discord_timestamp: the raw value is passed through.
discord_timestamp_raw(dt_str, style) == dt_str

discord_timestamp(dt_str, style) ==
    IF dt_str.t = "str" /\ dt_str.s \in DOMAIN StrptimeUTC
    THEN Str("<t:" \o ToString(StrptimeUTC[dt_str.s]) \o ":" \o style \o ">")
    ELSE dt_str

\* ------------------------------------------------------------------------
\* compare_events
\* ------------------------------------------------------------------------
fields_to_check ==
    << <<"name", "Name">>, <<"start_at", "Start Time">>,
       <<"meetup_at", "Meetup Time">>, <<"server", "Server">>,
       <<"map", "Map">>, <<"banner", "Banner">>,
       <<"departure", "Start Location">>, <<"arrive", "End Location">>,
       <<"description", "Description">> >>

\* Variant of NormVal: the values are compared as they are served.
NormVal_raw(key, val) == val

\* The value of one side of the comparison after the per-key reductions.
NormVal(key, val) ==
    CASE key = "server" ->
            IF IsDict(val) THEN Get(val.o, "name") ELSE val
      [] key \in {"departure", "arrive"} ->
            IF IsDict(val)
            THEN Str(PyStr(Get(val.o, "city")) \o " (" \o
                     PyStr(Get(val.o, "location")) \o ")")
            ELSE val
      [] key \in {"start_at", "meetup_at"} ->
            IF Truthy(val) THEN discord_timestamp(val, "F") ELSE val
      [] OTHER -> val

\* diffs as label -> (old, new), in the order the labels were inserted.
RECURSIVE CompareFrom(_, _, _)
CompareFrom(old_event, new_event, k) ==
    IF k > Len(fields_to_check) THEN EmptyDict
    ELSE LET key     == fields_to_check[k][1]
             label   == fields_to_check[k][2]
             old_val == NormVal(key, Get(old_event, key))
             new_val == NormVal(key, Get(new_event, key))
             rest    == CompareFrom(old_event, new_event, k + 1)
         IN  IF old_val # new_val
             THEN << <<label, <<old_val, new_val>> >> >> \o rest
             ELSE rest

\* Variant of compare_events: the Description entry is recorded outside the
\* test `old_val != new_val`.
compare_events_description_always(old_event, new_event) ==
    LET old_val == Get(old_event, "description")
        new_val == Get(new_event, "description")
    IN  CompareFrom(old_event, new_event, 1) \o
        (IF old_val = new_val
         THEN << <<"Description", <<old_val, new_val>> >> >>
         ELSE <<>>)

compare_events(old_event, new_event) == CompareFrom(old_event, new_event, 1)

\* The log line of a description change reads new_event['id'] and
\* new_event['name']: a KeyError when the new event lacks one of them.
compare_events_raises(old_event, new_event) ==
    /\ Get(old_event, "description") # Get(new_event, "description")
    /\ ~ ({"id", "name"} \subseteq DOMAIN new_event)

\* ------------------------------------------------------------------------
\* detect_changes
\* ------------------------------------------------------------------------
NoDiffs == <<>>

Change(kind, event, diffs) ==
    [kind |-> kind, event |-> event, diffs |-> diffs]

RECURSIVE CreatedUpdatedFrom(_, _, _)
CreatedUpdatedFrom(old_db, new_db, i) ==
    IF i > Len(new_db) THEN <<>>
    ELSE LET event_id == new_db[i][1]
             event    == new_db[i][2]
             rest     == CreatedUpdatedFrom(old_db, new_db, i + 1)
         IN  IF event_id \notin Keys(old_db)
             THEN <<Change("created", event, NoDiffs)>> \o rest
             ELSE LET diffs == compare_events(Lookup(old_db, event_id), event)
                  IN  IF diffs # EmptyDict
                      THEN <<Change("updated", event, diffs)>> \o rest
                      ELSE rest

\* Variant of RemovedFrom: the test `event_id not in new_db` is left out.
RemovedFrom_all(old_db, new_db, i) ==
    [k \in 1..(Len(old_db) + 1 - i) |->
        Change("removed", old_db[k + i - 1][2], NoDiffs)]

RECURSIVE RemovedFrom(_, _, _)
RemovedFrom(old_db, new_db, i) ==
    IF i > Len(old_db) THEN <<>>
    ELSE LET event_id == old_db[i][1]
             event    == old_db[i][2]
             rest     == RemovedFrom(old_db, new_db, i + 1)
         IN  IF event_id \notin Keys(new_db)
             THEN <<Change("removed", event, NoDiffs)>> \o rest
             ELSE rest

\* Variant of detect_changes: the loop over old_db runs first.
detect_changes_removed_first(old_db, new_db) ==
    RemovedFrom(old_db, new_db, 1) \o CreatedUpdatedFrom(old_db, new_db, 1)

detect_changes(old_db, new_db) ==
    CreatedUpdatedFrom(old_db, new_db, 1) \o RemovedFrom(old_db, new_db, 1)

detect_changes_raises(old_db, new_db) ==
    \E i \in 1..Len(new_db) :
        /\ new_db[i][1] \in Keys(old_db)
        /\ compare_events_raises(Lookup(old_db, new_db[i][1]), new_db[i][2])

\* ------------------------------------------------------------------------
\* The state file: load_db, save_db
\* ------------------------------------------------------------------------
\* events_db.json is absent, holds the JSON text of a mapping, holds text
\* that is not valid JSON (an empty or truncated file included), or cannot
\* be read as UTF-8 text at all.
Absent == [kind |-> "absent"]

Garbled == [kind |-> "garbled"]

Unreadable == [kind |-> "unreadable"]

\* json.dump(data, f, indent=2, ensure_ascii=False) of a mapping with string
\* keys; json.load gives the same mapping back, in the same key order.
Text(data) == [kind |-> "json", doc |-> data]

Returned(val) == [raised |-> FALSE, val |-> val]

Raised == [raised |-> TRUE, val |-> EmptyDict]

\* Only FileNotFoundError and JSONDecodeError are caught.
load_db(f) ==
    CASE f.kind = "json"    -> Returned(f.doc)
      [] f.kind = "absent"  -> Returned(EmptyDict)
      [] f.kind = "garbled" -> Returned(EmptyDict)
      [] OTHER              -> Raised

\* open(DB_FILE, "w") truncates the file before anything is written.
Truncated == Garbled

\* What save_db(new_db) has written once json.dump has returned.
save_db(data) == Text(data)

\* ------------------------------------------------------------------------
\* fetch_events
\* ------------------------------------------------------------------------
\* The outcome of requests.get: a RequestException, or a response with a
\* status code and a body.  A body is not JSON, a JSON array, or a JSON
\* object with an error flag and a response list.
TransportError == [exc |-> TRUE, status_code |-> 0, body |-> [kind |-> "notjson"]]

HttpResponse(code, body) == [exc |-> FALSE, status_code |-> code, body |-> body]

NotJson == [kind |-> "notjson"]

JsonArray == [kind |-> "array"]

JsonObject(error, response) ==
    [kind |-> "object", error |-> error, response |-> response]

\* {str(ev["id"]): ev for ev in response}
RECURSIVE DictOfEvents(_, _)
DictOfEvents(response, n) ==
    IF n = 0 THEN EmptyDict
    ELSE DictSet(DictOfEvents(response, n - 1),
                 PyStr(response[n]["id"]), response[n])

fetch_events(r) ==
    IF r.exc THEN Returned(EmptyDict)
    ELSE IF r.status_code # 200 THEN Returned(EmptyDict)
    ELSE IF r.body.kind = "notjson" THEN Returned(EmptyDict)
    ELSE IF r.body.kind # "object" THEN Raised
    ELSE IF ~r.body.error /\ r.body.response # <<>>
         THEN IF \E n \in 1..Len(r.body.response) :
                     "id" \notin DOMAIN r.body.response[n]
              THEN Raised
              ELSE Returned(DictOfEvents(r.body.response, Len(r.body.response)))
    ELSE Returned(EmptyDict)

\* ------------------------------------------------------------------------
\* build_embed, send_to_discord
\* ------------------------------------------------------------------------
HasKey(event, key) == key \in DOMAIN event

HasSub(event, key, sub) ==
    /\ HasKey(event, key)
    /\ IsDict(event[key])
    /\ sub \in DOMAIN event[key].o

\* build_embed subscripts these keys without a default: a KeyError (or a
\* TypeError, when the value is no object) if one is missing.
build_embed_raises(event) ==
    ~ /\ HasKey(event, "start_at")
      /\ HasSub(event, "departure", "city")
      /\ HasSub(event, "departure", "location")
      /\ HasSub(event, "arrive", "city")
      /\ HasSub(event, "arrive", "location")
      /\ HasKey(event, "name")
      /\ HasKey(event, "url")
      /\ HasSub(event, "vtc", "name")
      /\ HasKey(event, "game")
      /\ HasSub(event, "server", "name")
      /\ HasKey(event, "id")

\* The line build_embed writes for a changed description.  In the strings
\* of the Changes field (memo) stands for the emoji the source has there
\* and an apostrophe for each backtick.
DescriptionMarker == "(memo) **Description changed**"

\* Variant of DiffLine: the Description entry is formatted as the others.
DiffLine_echo(field, pair) ==
    "**" \o field \o ":** '" \o PyStr(pair[1]) \o "' -> '" \o PyStr(pair[2]) \o "'"

\* One line of the Changes field, for one entry of diffs.
DiffLine(field, pair) ==
    IF field = "Description"
    THEN DescriptionMarker
    ELSE "**" \o field \o ":** '" \o PyStr(pair[1]) \o "' -> '" \o PyStr(pair[2]) \o "'"

\* diff_lines of build_embed: one line per entry, in the order of diffs;
\* no Changes field for a record that is not an update or has no diffs.
diff_lines(change_type, diffs) ==
    IF change_type = "updated" /\ diffs # EmptyDict
    THEN [k \in 1..Len(diffs) |-> DiffLine(diffs[k][1], diffs[k][2])]
    ELSE <<>>

\* The outcome of requests.post: a RequestException or a status code.
PostError == [exc |-> TRUE, status_code |-> 0]

PostStatus(code) == [exc |-> FALSE, status_code |-> code]

PostResults == {PostError, PostStatus(200), PostStatus(204), PostStatus(429)}

\* send_to_discord returns None either way; this is what it logs.
Delivered(result) == ~result.exc /\ result.status_code \in {200, 204}

\* ------------------------------------------------------------------------
\* Program constants and bounds of the model
\* ------------------------------------------------------------------------
SLEEP_SECONDS == 10

RESTART_SECONDS == 86400

\* A time.sleep(10) can return late (a suspended host); the long sleep of the
\* model ends one short sleep before the restart ceiling.
LongSleep == RESTART_SECONDS - SLEEP_SECONDS

\* Short sleeps a process instance takes in the model.
MaxNaps == 1

\* Events from outside the model allows in one behaviour: changes of the
\* upstream events, writes of others to the state file and relaunches.
MaxIncidents == 2

\* The clock of the model stops here: room for a scheduled restart and the
\* iterations after it.
Horizon == RESTART_SECONDS + LongSleep

EventIds == {1, 2}

\* ------------------------------------------------------------------------
\* Events the API serves
\* ------------------------------------------------------------------------
BaseEvent(i) ==
    [id          |-> Num(i),
     name        |-> Str("Convoy"),
     start_at    |-> Str("2024-01-01 10:00:00"),
     meetup_at   |-> Str("2024-01-01 10:00:00"),
     server      |-> Obj([name |-> Str("Simulation 1"), id |-> Num(4)]),
     map         |-> Str("map.png"),
     banner      |-> Str("banner.png"),
     departure   |-> Obj([city |-> Str("Calais"), location |-> Str("Port")]),
     arrive      |-> Obj([city |-> Str("Duisburg"), location |-> Str("Depot")]),
     description |-> Str("Weekly convoy"),
     url         |-> Str("/events/1"),
     game        |-> Str("ETS2"),
     vtc         |-> Obj([name |-> Str("ATM Logistics")])]

Variants == {"base", "renamed", "regamed", "nostart"}

\* "renamed" differs in a tracked field, "regamed" in an untracked one and
\* "nostart" carries no start_at key.
Variant(i, v) ==
    LET e == BaseEvent(i)
    IN  CASE v = "renamed" -> [e EXCEPT !.name = Str("Convoy II")]
          [] v = "regamed" -> [e EXCEPT !.game = Str("ATS")]
          [] v = "nostart" -> [k \in (DOMAIN e) \ {"start_at"} |-> e[k]]
          [] OTHER         -> e

\* Event 1 is served in every variant, event 2 as the base event.
VariantsOf(i) == IF i = 1 THEN Variants ELSE {"base"}

IdsOf(list) == {list[n]["id"].i : n \in 1..Len(list)}

RemoveId(list, i) == SelectSeq(list, LAMBDA e : e["id"].i # i)

ReplaceId(list, i, ev) ==
    [n \in 1..Len(list) |-> IF list[n]["id"].i = i THEN ev ELSE list[n]]

\* What one request to the API can come back with while it serves `list`:
\* a transport error, an error status, a body that is not JSON, a JSON
\* array, an object with the error flag set, an object whose response holds
\* an event without an id, and the object with the events.
Responses(list) ==
    { TransportError,
      HttpResponse(503, NotJson),
      HttpResponse(200, NotJson),
      HttpResponse(200, JsonArray),
      HttpResponse(200, JsonObject(TRUE, <<>>)),
      HttpResponse(200, JsonObject(FALSE, <<[name |-> Str("Convoy")]>>)),
      HttpResponse(200, JsonObject(FALSE, list)) }

\* A transport error, a non-success status or a body that is not JSON:
\* fetch_events answers each with {}, as it does for an API without events.
IsFailure(r) ==
    \/ r.exc
    \/ r.status_code # 200
    \/ r.body.kind = "notjson"

\* ------------------------------------------------------------------------
\* State
\* ------------------------------------------------------------------------
VARIABLES
    file,          \* events_db.json
    upstream,      \* the events the API serves, in its order
    phase,         \* Bootstrap, Polling, Restarting, Stopped or Crashed
    pc,            \* the statement main() is at
    old_db,        \* main's old_db
    new_db,        \* main's new_db
    changes,       \* main's changes
    idx,           \* position of the for loop over changes
    exit_code,     \* exit status of the process, -1 while it runs
    START_TIME,    \* the module global START_TIME
    now,           \* time.time()
    incidents,     \* events from outside so far (Edit, Tamper, Launch)
    sent,          \* webhook posts of this cycle: the change and the outcome
    saveState,     \* save_db in this cycle: "none", "writing" or "done"
    fetchFailed,   \* this cycle's fetch was a failure
    loadedCorrupt, \* this cycle's load found an unusable state file
    startedBy,     \* what started this process instance: "launch" or "execv"
    undelivered,   \* records a process that ended had not delivered, since the
                   \* upstream last changed
    missed,        \* records whose delivery failed in a batch that was saved,
                   \* with the snapshot that batch had fetched
    lastSnap       \* the snapshot the last completed cycle fetched, while the
                   \* process went on or re-executed itself and no one else
                   \* wrote the state file

NoMissed == [snap |-> EmptyDict, recs |-> {}]

procVars == <<phase, pc, old_db, new_db, changes, idx, exit_code>>

clockVars == <<START_TIME, now, startedBy>>

envVars == <<upstream, incidents>>

cycleVars == <<sent, saveState, fetchFailed, loadedCorrupt>>

NoSnap == [done |-> FALSE, snap |-> EmptyDict]

histVars == <<undelivered, missed, lastSnap>>

vars == <<file, procVars, clockVars, envVars, cycleVars, histVars>>

Running == phase \in {"Bootstrap", "Polling", "Restarting"}

Init ==
    /\ file = Absent
    /\ upstream \in {<<>>, <<BaseEvent(1)>>}
    /\ phase = "Bootstrap"
    /\ pc = "load"
    /\ old_db = EmptyDict
    /\ new_db = EmptyDict
    /\ changes = <<>>
    /\ idx = 1
    /\ exit_code = -1
    /\ START_TIME = 0
    /\ now = 0
    /\ startedBy = "launch"
    /\ incidents = 0
    /\ sent = <<>>
    /\ saveState = "none"
    /\ fetchFailed = FALSE
    /\ loadedCorrupt = FALSE
    /\ undelivered = {}
    /\ missed = NoMissed
    /\ lastSnap = NoSnap

\* ------------------------------------------------------------------------
\* main(): decisions
\* ------------------------------------------------------------------------
\* Variant of should_restart: the start time is not subtracted.
should_restart_absolute(t, start) == t >= RESTART_SECONDS

should_restart(t, start) == (t - start) >= RESTART_SECONDS

\* Variants of IsFirstRun: the baseline branch never taken, always taken.
IsFirstRun_never(old) == FALSE

IsFirstRun_always(old) == TRUE

\* `if not old_db:` of the bootstrap cycle.
IsFirstRun(old) == old = EmptyDict

\* Variant of AfterFetch: the save is reached with an empty change list too.
AfterFetch_saves(ph, old, chg) ==
    IF ph = "Bootstrap"
    THEN IF IsFirstRun(old) THEN "save"
         ELSE IF chg # <<>> THEN "notify" ELSE "sleep"
    ELSE IF chg # <<>> THEN "notify" ELSE "save"

\* Where main() goes once old_db and new_db are known: the baseline save,
\* the for loop over the changes, or the end of the cycle.
AfterFetch(ph, old, chg) ==
    IF ph = "Bootstrap"
    THEN IF IsFirstRun(old) THEN "save"
         ELSE IF chg # <<>> THEN "notify" ELSE "sleep"
    ELSE IF chg # <<>> THEN "notify" ELSE "check"

\* The changes main() computes: none in the baseline branch.
ChangesOf(ph, old, new) ==
    IF ph = "Bootstrap" /\ IsFirstRun(old) THEN <<>> ELSE detect_changes(old, new)

\* Variant of send_to_discord: a RequestException is not caught.
send_to_discord_raising(change, result) ==
    IF build_embed_raises(change.event) \/ result.exc
    THEN [raised |-> TRUE, ok |-> FALSE]
    ELSE [raised |-> FALSE, ok |-> Delivered(result)]

\* send_to_discord(event, change_type, diffs) when requests.post comes back
\* with `result`: it raises only out of build_embed.
send_to_discord(change, result) ==
    IF build_embed_raises(change.event)
    THEN [raised |-> TRUE, ok |-> FALSE]
    ELSE [raised |-> FALSE, ok |-> Delivered(result)]

\* Variant of AfterSend: the loop is left after its first pass.
AfterSend_once(i, chg) == "save"

\* The for loop: the next position, and where main() goes after the loop.
AfterSend(i, chg) == IF i + 1 > Len(chg) THEN "save" ELSE "notify"

\* Variant of DataToSave: the loaded snapshot is written back.
DataToSave_old(old, new) == old

\* The snapshot main() hands to save_db.
DataToSave(old, new) == new

\* After save_db: the bootstrap cycle enters the loop, an iteration ends.
AfterSave(ph) == IF ph = "Bootstrap" THEN "sleep" ELSE "check"

\* Variant of OnInterrupt: the handler exits with a failure status.
OnInterrupt_failing(ph) ==
    IF ph = "Bootstrap"
    THEN [phase |-> "Crashed", exit_code |-> 130]
    ELSE [phase |-> "Stopped", exit_code |-> 1]

\* KeyboardInterrupt: caught around the while loop only, where it exits
\* with status 0; in the bootstrap cycle it ends the process as any
\* uncaught exception does.
OnInterrupt(ph) ==
    IF ph = "Bootstrap"
    THEN [phase |-> "Crashed", exit_code |-> 130]
    ELSE [phase |-> "Stopped", exit_code |-> 0]

\* The records of the batch not yet handed to the webhook.
Pending == IF pc = "notify" THEN {changes[k] : k \in idx..Len(changes)} ELSE {}

FailedInBatch == {sent[k].change : k \in {j \in 1..Len(sent) : ~sent[j].ok}}

\* The process ends: its memory is gone.  pc keeps the statement it ended at.
Exit(ph, code) ==
    /\ phase' = ph
    /\ exit_code' = code
    /\ old_db' = EmptyDict
    /\ new_db' = EmptyDict
    /\ changes' = <<>>
    /\ idx' = 1
    /\ sent' = <<>>
    /\ saveState' = "none"
    /\ fetchFailed' = FALSE
    /\ loadedCorrupt' = FALSE
    /\ undelivered' = undelivered \cup Pending \cup FailedInBatch
    /\ lastSnap' = NoSnap
    /\ UNCHANGED <<file, pc, clockVars, envVars, missed>>

\* An exception other than KeyboardInterrupt leaves main().
Crash == Exit("Crashed", 1)

\* ------------------------------------------------------------------------
\* main(): steps
\* ------------------------------------------------------------------------
\* old_db = load_db()
Load ==
    /\ phase \in {"Bootstrap", "Polling"}
    /\ pc = "load"
    /\ LET r == load_db(file)
       IN  IF r.raised
           THEN Crash
           ELSE /\ old_db' = r.val
                /\ pc' = "fetch"
                /\ sent' = <<>>
                /\ saveState' = "none"
                /\ fetchFailed' = FALSE
                /\ loadedCorrupt' = (file.kind \in {"garbled", "unreadable"})
                /\ UNCHANGED <<file, phase, new_db, changes, idx, exit_code,
                               clockVars, envVars, histVars>>

\* new_db = fetch_events(), then the branch on old_db or
\* changes = detect_changes(old_db, new_db)
Fetch ==
    /\ phase \in {"Bootstrap", "Polling"}
    /\ pc = "fetch"
    /\ \E r \in Responses(upstream) :
          LET res == fetch_events(r)
              chg == ChangesOf(phase, old_db, res.val)
              to  == AfterFetch(phase, old_db, chg)
          IN  IF \/ res.raised
                 \/ /\ ~(phase = "Bootstrap" /\ IsFirstRun(old_db))
                    /\ detect_changes_raises(old_db, res.val)
              THEN Crash
              ELSE /\ new_db' = res.val
                   /\ changes' = chg
                   /\ idx' = 1
                   /\ pc' = to
                   /\ phase' = IF to = "sleep" THEN "Polling" ELSE phase
                   /\ fetchFailed' = IsFailure(r)
                   /\ missed' = IF missed.recs # {} /\ res.val # missed.snap
                                THEN NoMissed ELSE missed
                   /\ lastSnap' = IF to \in {"sleep", "check"}
                                  THEN [done |-> TRUE, snap |-> res.val]
                                  ELSE lastSnap
                   /\ UNCHANGED <<file, old_db, exit_code, clockVars, envVars,
                                  sent, saveState, loadedCorrupt,
                                  undelivered>>

\* One pass of `for change_type, event, diffs in changes: send_to_discord(...)`
Notify ==
    /\ phase \in {"Bootstrap", "Polling"}
    /\ pc = "notify"
    /\ idx <= Len(changes)
    /\ \E result \in PostResults :
          LET out == send_to_discord(changes[idx], result)
          IN  IF out.raised
              THEN Crash
              ELSE /\ sent' = Append(sent, [change |-> changes[idx], ok |-> out.ok])
                   /\ idx' = idx + 1
                   /\ pc' = AfterSend(idx, changes)
                   /\ UNCHANGED <<file, phase, old_db, new_db, changes, exit_code,
                                  clockVars, envVars, saveState, fetchFailed,
                                  loadedCorrupt, histVars>>

\* save_db: open(DB_FILE, "w") has truncated the file
SaveOpen ==
    /\ phase \in {"Bootstrap", "Polling"}
    /\ pc = "save"
    /\ file' = Truncated
    /\ saveState' = "writing"
    /\ pc' = "dump"
    /\ UNCHANGED <<phase, old_db, new_db, changes, idx, exit_code, clockVars,
                   envVars, sent, fetchFailed, loadedCorrupt, histVars>>

\* save_db: json.dump has written the snapshot and the file is closed
SaveDump ==
    /\ phase \in {"Bootstrap", "Polling"}
    /\ pc = "dump"
    /\ file' = save_db(DataToSave(old_db, new_db))
    /\ saveState' = "done"
    /\ pc' = AfterSave(phase)
    /\ phase' = "Polling"
    /\ missed' = IF FailedInBatch = {} THEN missed
                 ELSE [snap |-> new_db,
                       recs |-> FailedInBatch \cup
                                (IF missed.snap = new_db THEN missed.recs ELSE {})]
    /\ lastSnap' = [done |-> TRUE, snap |-> new_db]
    /\ UNCHANGED <<old_db, new_db, changes, idx, exit_code, clockVars, envVars,
                   sent, fetchFailed, loadedCorrupt, undelivered>>

\* The sleeps of this process instance that took their 10 seconds.
NapsTaken == ((now - START_TIME) % LongSleep) \div SLEEP_SECONDS

\* time.sleep(10)
Sleep ==
    /\ phase = "Polling"
    /\ pc = "sleep"
    /\ \E d \in {SLEEP_SECONDS, LongSleep} :
          /\ d = SLEEP_SECONDS => NapsTaken < MaxNaps
          /\ now + d <= Horizon
          /\ now' = now + d
    /\ pc' = "load"
    /\ UNCHANGED <<file, phase, old_db, new_db, changes, idx, exit_code,
                   START_TIME, startedBy, envVars, cycleVars, histVars>>

\* if should_restart(): the end of an iteration
Check ==
    /\ phase = "Polling"
    /\ pc = "check"
    /\ IF should_restart(now, START_TIME)
       THEN phase' = "Restarting" /\ pc' = "execv"
       ELSE phase' = phase /\ pc' = "sleep"
    /\ UNCHANGED <<file, old_db, new_db, changes, idx, exit_code, clockVars,
                   envVars, cycleVars, histVars>>

\* A new process image: the module is imported again and main() starts.
NewProcess(by) ==
    /\ startedBy' = by
    /\ phase' = "Bootstrap"
    /\ pc' = "load"
    /\ old_db' = EmptyDict
    /\ new_db' = EmptyDict
    /\ changes' = <<>>
    /\ idx' = 1
    /\ exit_code' = -1
    /\ START_TIME' = now
    /\ sent' = <<>>
    /\ saveState' = "none"
    /\ fetchFailed' = FALSE
    /\ loadedCorrupt' = FALSE
    /\ UNCHANGED <<file, now, upstream, histVars>>

\* os.execv(sys.executable, [sys.executable] + sys.argv)
Exec ==
    /\ phase = "Restarting"
    /\ pc = "execv"
    /\ NewProcess("execv")
    /\ UNCHANGED incidents

\* except KeyboardInterrupt: sys.exit(0), or the uncaught interrupt
Interrupt ==
    /\ Running
    /\ Exit(OnInterrupt(phase).phase, OnInterrupt(phase).exit_code)

\* ------------------------------------------------------------------------
\* The environment
\* ------------------------------------------------------------------------
\* The bot is started again after it has exited.
Launch ==
    /\ phase \in {"Stopped", "Crashed"}
    /\ incidents < MaxIncidents
    /\ incidents' = incidents + 1
    /\ NewProcess("launch")

\* The events the API serves change: one is published, revised or withdrawn.
\* The bot sees the events only when it fetches: the change is placed right
\* before a fetch.
Edit ==
    /\ Running /\ pc = "fetch"
    /\ incidents < MaxIncidents
    /\ incidents' = incidents + 1
    /\ \E i \in EventIds :
          \/ /\ i \notin IdsOf(upstream)
             /\ \E v \in VariantsOf(i) : upstream' = Append(upstream, Variant(i, v))
          \/ /\ i \in IdsOf(upstream)
             /\ upstream' = RemoveId(upstream, i)
          \/ /\ i \in IdsOf(upstream)
             /\ \E v \in VariantsOf(i) :
                   /\ upstream' = ReplaceId(upstream, i, Variant(i, v))
                   /\ upstream' # upstream
    /\ undelivered' = {}
    /\ missed' = NoMissed
    /\ UNCHANGED <<file, procVars, clockVars, cycleVars, lastSnap>>

\* Another writer deletes or damages the state file.  The bot reads the
\* file only when it loads: the write is placed right before a load.
Tamper ==
    /\ Running /\ pc = "load"
    /\ incidents < MaxIncidents
    /\ incidents' = incidents + 1
    /\ file' \in {Absent, Garbled, Unreadable} \ {file}
    /\ undelivered' = {}
    /\ missed' = NoMissed
    /\ lastSnap' = NoSnap
    /\ UNCHANGED <<procVars, clockVars, upstream, sent, saveState,
                   fetchFailed, loadedCorrupt>>

Next ==
    \/ Load
    \/ Fetch
    \/ Notify
    \/ SaveOpen
    \/ SaveDump
    \/ Sleep
    \/ Check
    \/ Exec
    \/ Interrupt
    \/ Launch
    \/ Edit
    \/ Tamper

Spec == Init /\ [][Next]_vars

\* ------------------------------------------------------------------------
\* Properties
\* ------------------------------------------------------------------------
\* The changes posted in this cycle, in the order they were posted.
SentChanges == [k \in 1..Len(sent) |-> sent[k].change]

\* The cycle is over: main() is between the save (if any) and the next load.
CycleDone == phase \in {"Polling", "Restarting"} /\ pc \in {"check", "execv"}

\* The snapshot of this cycle is the one the API serves.
Faithful == new_db = DictOfEvents(upstream, Len(upstream))

\* The first sleep of a process instance: the bootstrap cycle has just ended.
FirstSleep == phase = "Polling" /\ pc = "sleep" /\ now = START_TIME

\* C1: in a cycle whose load gave a non-empty snapshot and whose fetch
\* failed, no change is produced, nothing is posted and save_db is not
\* called.
C1_FailedFetchIsNoChange ==
    (Running /\ fetchFailed /\ old_db # EmptyDict)
        => (changes = <<>> /\ sent = <<>> /\ saveState = "none")

\* C2: a bootstrap cycle that loaded an empty snapshot posts nothing, and
\* when it enters the loop the state file holds the fetched snapshot.
C2_BootstrapBaseline ==
    /\ (phase = "Bootstrap" /\ pc # "load" /\ old_db = EmptyDict)
          => (sent = <<>> /\ pc \in {"fetch", "save", "dump"})
    /\ (FirstSleep /\ old_db = EmptyDict)
          => (sent = <<>> /\ saveState = "done" /\ file = Text(new_db))

C2_Witness ==
    /\ FirstSleep
    /\ old_db = EmptyDict
    /\ new_db # EmptyDict
    /\ file = Text(new_db)
    /\ sent = <<>>

\* C3: in a cycle whose load found an unparsable state file nothing is
\* posted, and at the end of the cycle the events that were fetched have
\* been saved.
C3_CorruptStateReseedsQuietly ==
    (Running /\ loadedCorrupt)
        => /\ sent = <<>>
           /\ pc # "notify"
           /\ ((CycleDone \/ pc = "sleep") /\ new_db # EmptyDict)
                => (saveState = "done" /\ file = Text(new_db))

\* C4: in a cycle with changes the posts made so far are the changes in
\* their order, one per record; the save starts only after the last post;
\* and when it is done the state file holds the fetched snapshot.
C4_NotifyInOrderThenSave ==
    (Running /\ changes # <<>>)
        => /\ pc \in {"notify", "save", "dump"}
                => SentChanges = SubSeq(changes, 1, idx - 1)
           /\ saveState # "none" => SentChanges = changes
           /\ pc \in {"save", "dump"} => idx = Len(changes) + 1
           /\ (CycleDone \/ pc = "sleep")
                => (saveState = "done" /\ file = Text(new_db))

C4_Witness ==
    /\ CycleDone
    /\ Len(changes) = 2
    /\ Faithful
    /\ SentChanges = changes
    /\ saveState = "done"
    /\ file = Text(new_db)

\* C5: a polling iteration without changes posts nothing and does not call
\* save_db: the state file still reads as the snapshot that was loaded.
C5_NoChangeNoSave ==
    (CycleDone /\ changes = <<>>)
        => /\ sent = <<>>
           /\ saveState = "none"
           /\ load_db(file) = Returned(old_db)

C5_Witness ==
    /\ CycleDone
    /\ changes = <<>>
    /\ old_db # EmptyDict
    /\ new_db # old_db
    /\ Keys(new_db) = Keys(old_db)
    /\ saveState = "none"
    /\ file = Text(old_db)

\* A step of the for loop that posted changes[idx].
Posts == Running /\ pc = "notify" /\ Len(sent') = Len(sent) + 1

C7_FailedPostDoesNotStopBatch ==
    /\ [][(Running /\ pc = "notify" /\ phase' = "Crashed" /\ exit_code' = 1)
             => build_embed_raises(changes[idx].event)]_vars
    /\ [][(Posts /\ ~sent'[Len(sent')].ok)
             => /\ phase' = phase
                /\ exit_code' = -1
                /\ idx' = idx + 1
                /\ pc' = (IF idx < Len(changes) THEN "notify" ELSE "save")
                /\ changes' = changes
                /\ sent' = Append(sent, [change |-> changes[idx], ok |-> FALSE])]_vars
    /\ []((Running /\ FailedInBatch # {} /\ saveState # "none")
             => SentChanges = changes)
    /\ []((FailedInBatch # {} /\ saveState = "done" /\ pc # "load")
             => (phase \in {"Polling", "Restarting"} /\ file = Text(new_db)))

C7_Witness ==
    /\ phase = "Polling"
    /\ pc = "check"
    /\ saveState = "done"
    /\ Len(sent) = 2
    /\ ~sent[1].ok
    /\ sent[2].ok
    /\ file = Text(new_db)

\* C8: an interrupt during the sleep or between two iterations stops the
\* process with status 0 and leaves the state file as it is, no save being
\* under way there; a stopped process does nothing more.
C8_InterruptStopsCleanly ==
    /\ []((Running /\ pc \in {"sleep", "check", "execv"}) => saveState # "writing")
    /\ [][(phase \in {"Polling", "Restarting"} /\ pc \in {"sleep", "check", "execv"}
             /\ phase' \notin {"Polling", "Restarting", "Bootstrap"})
             => (phase' = "Stopped" /\ exit_code' = 0 /\ file' = file /\ pc' = pc)]_vars
    /\ [][phase = "Stopped"
             => /\ file' = file
                /\ exit_code' # exit_code => (phase' = "Bootstrap" /\ pc' = "load")
                /\ sent' = <<>>
                /\ saveState' = "none"]_vars

C8_Witness ==
    /\ phase = "Stopped"
    /\ pc = "sleep"
    /\ exit_code = 0
    /\ now > START_TIME
    /\ file.kind = "json"
    /\ file.doc # EmptyDict

\* C9 as stated: the process is in Restarting only with more than the
\* ceiling elapsed since it started.
C9_RestartOnlyPastCeiling ==
    phase = "Restarting" => (now - START_TIME) > RESTART_SECONDS

\* C9 as amended: the process is in Restarting only at the end of an
\* iteration, with every change of the iteration posted and the save (if
\* any) done, and with at least the ceiling elapsed since it started.
C9_RestartOnlyAtIterationEnd ==
    /\ phase = "Restarting"
          => /\ pc = "execv"
             /\ (now - START_TIME) >= RESTART_SECONDS
             /\ SentChanges = changes
             /\ changes # <<>> => (saveState = "done" /\ file = Text(new_db))
             /\ changes = <<>> => saveState = "none"
    /\ pc \in {"load", "fetch", "notify", "save", "dump", "sleep"}
          => phase # "Restarting"

C9_Witness ==
    /\ phase = "Restarting"
    /\ (now - START_TIME) = RESTART_SECONDS
    /\ changes # <<>>
    /\ Faithful
    /\ saveState = "done"

\* C10: the process image that replaces a restarting process starts in
\* Bootstrap with the current time as its start time and empty locals; its
\* load gives what the state file holds; and with a non-empty loaded
\* snapshot it posts every change and saves (if there were changes) before
\* its first sleep.
C10_RestartReentersBootstrap ==
    /\ [][(phase = "Restarting" /\ phase' \in {"Bootstrap", "Polling"})
             => /\ phase' = "Bootstrap"
                /\ pc' = "load"
                /\ START_TIME' = now'
                /\ START_TIME' > START_TIME
                /\ old_db' = EmptyDict /\ new_db' = EmptyDict
                /\ changes' = <<>> /\ sent' = <<>>
                /\ file' = file]_vars
    /\ [][(phase = "Bootstrap" /\ pc = "load" /\ pc' = "fetch")
             => old_db' = (IF file.kind = "json" THEN file.doc ELSE EmptyDict)]_vars
    /\ []((FirstSleep /\ old_db # EmptyDict)
             => /\ changes = detect_changes(old_db, new_db)
                /\ SentChanges = changes
                /\ changes # <<>> => (saveState = "done" /\ file = Text(new_db))
                /\ changes = <<>> => (saveState = "none" /\ file = Text(old_db)))

C10_Witness ==
    /\ startedBy = "execv"
    /\ FirstSleep
    /\ old_db # EmptyDict
    /\ changes # <<>>
    /\ Faithful
    /\ file = Text(new_db)

\* ------------------------------------------------------------------------
\* The diff engine on its own: detect_changes called on pairs of snapshots
\* ------------------------------------------------------------------------
TrackedKeys == {fields_to_check[k][1] : k \in 1..Len(fields_to_check)}

\* An event without the key, and an event with the key set to a value.
DropKey(e, key) == [x \in (DOMAIN e) \ {key} |-> e[x]]

SetKey(e, key, val) ==
    [x \in (DOMAIN e) \cup {key} |-> IF x = key THEN val ELSE e[x]]

\* Values one key of an event is served with besides the base value: other
\* texts, timestamps that render as the base one does, that differ from it
\* in the seconds, that do not parse or are empty, a server with another id,
\* another name or no name, a location given as its display text.
Revisions ==
    { <<"name", Str("Convoy II")>>,
      <<"game", Str("ATS")>>,
      <<"start_at", Str("2024-1-1 10:00:00")>>,
      <<"start_at", Str("2024-01-01 10:00:01")>>,
      <<"start_at", Str("soon")>>,
      <<"start_at", Str("")>>,
      <<"meetup_at", Str("2024-1-1 10:00:00")>>,
      <<"meetup_at", Str("2024-01-01 10:00:01")>>,
      <<"meetup_at", Str("later")>>,
      <<"server", Obj([name |-> Str("Simulation 1"), id |-> Num(7)])>>,
      <<"server", Obj([name |-> Str("Simulation 2"), id |-> Num(4)])>>,
      <<"server", Obj([id |-> Num(4)])>>,
      <<"map", Str("map2.png")>>,
      <<"departure", Obj([city |-> Str("Dover"), location |-> Str("Port")])>>,
      <<"departure", Str("Calais (Port)")>>,
      <<"arrive", Obj([city |-> Str("Duisburg")])>>,
      <<"description", Str("Monthly convoy")>> }

\* The records of event i the diff engine is called with: the base event,
\* the event without one tracked key, with one tracked key null, with one
\* key revised, and without a name and with another description.
EventsOf(i) ==
    {BaseEvent(i)}
    \cup {DropKey(BaseEvent(i), key) : key \in TrackedKeys}
    \cup {SetKey(BaseEvent(i), key, Null) : key \in TrackedKeys}
    \cup {SetKey(BaseEvent(i), r[1], r[2]) : r \in Revisions}
    \cup {DropKey(SetKey(BaseEvent(i), "description", Str("Monthly convoy")),
                  "name")}

\* Snapshots keyed as fetch_events keys them: event 1 in each of its records,
\* alone or with the base event 2 before or after it, and a few snapshots
\* with a third event, whose ids are not in ascending order.
Snapshots ==
    {EmptyDict, << <<"2", BaseEvent(2)>> >>}
    \cup {<< <<"1", e>> >> : e \in EventsOf(1)}
    \cup {<< <<"1", e>>, <<"2", BaseEvent(2)>> >> : e \in EventsOf(1)}
    \cup {<< <<"2", BaseEvent(2)>>, <<"1", e>> >> : e \in EventsOf(1)}
    \cup { << <<"3", BaseEvent(3)>>, <<"2", BaseEvent(2)>> >>,
           << <<"2", BaseEvent(2)>>, <<"3", BaseEvent(3)>> >>,
           << <<"3", BaseEvent(3)>>, <<"1", BaseEvent(1)>> >>,
           << <<"1", BaseEvent(1)>>, <<"3", BaseEvent(3)>> >> }

DiffInit ==
    /\ old_db \in Snapshots
    /\ new_db \in Snapshots
    /\ changes = <<>>
    /\ pc = "call"
    /\ phase = "Polling"
    /\ file = Absent
    /\ upstream = <<>>
    /\ idx = 1
    /\ exit_code = -1
    /\ START_TIME = 0
    /\ now = 0
    /\ startedBy = "launch"
    /\ incidents = 0
    /\ sent = <<>>
    /\ saveState = "none"
    /\ fetchFailed = FALSE
    /\ loadedCorrupt = FALSE
    /\ undelivered = {}
    /\ missed = NoMissed
    /\ lastSnap = NoSnap

\* changes = detect_changes(old_db, new_db)
CallDetect ==
    /\ pc = "call"
    /\ IF detect_changes_raises(old_db, new_db)
       THEN pc' = "raised" /\ changes' = changes
       ELSE pc' = "returned" /\ changes' = detect_changes(old_db, new_db)
    /\ UNCHANGED <<file, phase, old_db, new_db, idx, exit_code, clockVars,
                   envVars, cycleVars, histVars>>

\* The next cycle starts from the snapshot this one fetched.
Advance ==
    /\ pc = "returned"
    /\ old_db # new_db
    /\ old_db' = new_db
    /\ changes' = <<>>
    /\ pc' = "call"
    /\ UNCHANGED <<file, phase, new_db, idx, exit_code, clockVars, envVars,
                   cycleVars, histVars>>

\* embed = build_embed(event, change_type, diffs) for each record returned:
\* whether it raises, and the lines of its Changes field.
Render ==
    /\ pc = "returned"
    /\ changes # <<>>
    /\ sent' = [k \in 1..Len(changes) |->
                  [change |-> changes[k],
                   raised |-> build_embed_raises(changes[k].event),
                   lines  |-> diff_lines(changes[k].kind, changes[k].diffs)]]
    /\ pc' = "rendered"
    /\ UNCHANGED <<file, phase, old_db, new_db, changes, idx, exit_code,
                   clockVars, envVars, saveState, fetchFailed, loadedCorrupt,
                   histVars>>

DiffNext ==
    \/ CallDetect
    \/ Render
    \/ Advance

DiffSpec == DiffInit /\ [][DiffNext]_vars

\* ------------------------------------------------------------------------
\* Properties of the diff engine
\* ------------------------------------------------------------------------
\* The id a change record is about, as the snapshots key it.
IdOf(rec) == PyStr(rec.event["id"])

\* The positions of the records of one kind about one id.
RecordsOf(kind, id) ==
    {k \in 1..Len(changes) : changes[k].kind = kind /\ IdOf(changes[k]) = id}

\* C11: what detect_changes(old_db, new_db) returns holds exactly one Created
\* record for each id of new_db that old_db lacks and none for another id,
\* exactly one Removed record for each id of old_db that new_db lacks and
\* none for another id, and at most one record of any kind for an id.
C11_CreatedRemovedOncePerId ==
    pc = "returned" =>
        /\ \A id \in Keys(new_db) \ Keys(old_db) :
              Cardinality(RecordsOf("created", id)) = 1
        /\ \A id \in Keys(old_db) \ Keys(new_db) :
              Cardinality(RecordsOf("removed", id)) = 1
        /\ \A k \in 1..Len(changes) :
              /\ changes[k].kind = "created"
                    => IdOf(changes[k]) \in Keys(new_db) \ Keys(old_db)
              /\ changes[k].kind = "removed"
                    => IdOf(changes[k]) \in Keys(old_db) \ Keys(new_db)
        /\ \A id \in Keys(old_db) \cup Keys(new_db) :
              Cardinality({k \in 1..Len(changes) : IdOf(changes[k]) = id}) <= 1

\* One event was published and another withdrawn between the snapshots.
C11_Witness ==
    /\ pc = "returned"
    /\ Keys(old_db) = {"1"}
    /\ Keys(new_db) = {"2"}
    /\ Len(changes) = 2
    /\ RecordsOf("created", "2") # {}
    /\ RecordsOf("removed", "1") # {}

\* The value of a tracked key of an event as C12 has it compared: the name
\* of a server object, "city (location)" of a location object, the display
\* form of a timestamp, any other value as it is (None for an absent key).
C12_Reduced(key, event) ==
    LET val == Get(event, key)
    IN  IF key = "server" /\ IsDict(val) THEN Get(val.o, "name")
        ELSE IF key \in {"departure", "arrive"} /\ IsDict(val)
             THEN Str(PyStr(Get(val.o, "city")) \o " (" \o
                      PyStr(Get(val.o, "location")) \o ")")
        ELSE IF key \in {"start_at", "meetup_at"} /\ Truthy(val)
             THEN discord_timestamp(val, "F")
        ELSE val

\* The positions in fields_to_check of the keys two events differ in.
C12_Differing(old_event, new_event) ==
    {j \in 1..Len(fields_to_check) :
        C12_Reduced(fields_to_check[j][1], old_event)
            # C12_Reduced(fields_to_check[j][1], new_event)}

\* C12: for an id of both snapshots, what detect_changes returns holds an
\* Updated record iff the two events differ in the reduced value of a
\* tracked key; the record carries the new event, and its diffs hold the
\* labels of exactly those keys, each with the pair of the old and the new
\* reduced value.  Events that differ only in untracked keys, or in the
\* server only by attributes other than its name, get no record.
C12_UpdatedIffTrackedFieldDiffers ==
    pc = "returned" =>
        \A id \in Keys(old_db) \cap Keys(new_db) :
            LET o == Lookup(old_db, id)
                n == Lookup(new_db, id)
                D == C12_Differing(o, n)
                U == RecordsOf("updated", id)
            IN  /\ (U # {}) <=> (D # {})
                /\ \A k \in U :
                      /\ changes[k].event = n
                      /\ Keys(changes[k].diffs) = {fields_to_check[j][2] : j \in D}
                      /\ Len(changes[k].diffs) = Cardinality(D)
                      /\ \A j \in D :
                            Lookup(changes[k].diffs, fields_to_check[j][2])
                              = << C12_Reduced(fields_to_check[j][1], o),
                                   C12_Reduced(fields_to_check[j][1], n) >>
                /\ ( /\ \A key \in TrackedKeys \ {"server"} :
                           Get(o, key) = Get(n, key)
                     /\ C12_Reduced("server", o) = C12_Reduced("server", n) )
                      => \A k \in 1..Len(changes) : IdOf(changes[k]) # id

\* The event was renamed from "Convoy" to "Convoy II" and nothing else: one
\* Updated record with the one entry Name.
C12_Witness ==
    /\ pc = "returned"
    /\ old_db = << <<"1", BaseEvent(1)>> >>
    /\ new_db = << <<"1", SetKey(BaseEvent(1), "name", Str("Convoy II"))>> >>
    /\ changes = << Change("updated", new_db[1][2],
                           << <<"Name", <<Str("Convoy"), Str("Convoy II")>> >> >>) >>

\* The position of a key in a snapshot's iteration order.
PosIn(db, id) == CHOOSE i \in 1..Len(db) : db[i][1] = id

\* C13: in what detect_changes returns no Removed record comes before a
\* Created or Updated record; the Created and Updated records follow the
\* iteration order of new_db and the Removed records that of old_db.
C13_CreatedUpdatedThenRemoved ==
    pc = "returned" =>
        \A j, k \in 1..Len(changes) :
            j < k =>
                /\ changes[j].kind = "removed" => changes[k].kind = "removed"
                /\ (changes[j].kind # "removed" /\ changes[k].kind # "removed")
                      => PosIn(new_db, IdOf(changes[j])) < PosIn(new_db, IdOf(changes[k]))
                /\ changes[j].kind = "removed"
                      => PosIn(old_db, IdOf(changes[j])) < PosIn(old_db, IdOf(changes[k]))

\* Event 2 published, event 1 renamed, event 3 withdrawn: the records come
\* in this order, new_db listing event 2 before event 1.
C13_Witness ==
    /\ pc = "returned"
    /\ old_db = << <<"3", BaseEvent(3)>>, <<"1", BaseEvent(1)>> >>
    /\ Len(new_db) = 2
    /\ new_db[1][1] = "2"
    /\ new_db[2][1] = "1"
    /\ Len(changes) = 3
    /\ changes[1].kind = "created" /\ IdOf(changes[1]) = "2"
    /\ changes[2].kind = "updated" /\ IdOf(changes[2]) = "1"
    /\ changes[3].kind = "removed" /\ IdOf(changes[3]) = "3"

\* C14: detect_changes(S, S) returns, and returns the empty sequence: for a
\* pair of equal snapshots drawn at the start, and for the pair a cycle
\* leaves behind when the old snapshot has been advanced to the new one.
C14_SameSnapshotNoChanges ==
    old_db = new_db => (pc # "raised" /\ (pc = "returned" => changes = <<>>))

\* The call on two equal snapshots of two events has returned.
C14_Witness ==
    /\ pc = "returned"
    /\ old_db = new_db
    /\ Len(new_db) = 2
    /\ changes = <<>>

\* ------------------------------------------------------------------------
\* Properties of the fetch and of the load
\* ------------------------------------------------------------------------
\* C15: fetch_events does not raise and returns the empty mapping or the
\* mapping of the served events by id: the step from the fetch never ends
\* the process with an exception (detect_changes, the other call of that
\* step, does not raise on the events the API of this specification
\* serves), and the step leaves one of the two mappings in new_db.
C15_FetchNeverRaises ==
    /\ [][(Running /\ pc = "fetch")
             => ~(phase' = "Crashed" /\ exit_code' = 1)]_vars
    /\ [][(Running /\ pc = "fetch" /\ pc' # "fetch")
             => new_db' \in {EmptyDict, DictOfEvents(upstream, Len(upstream))}]_vars

\* C16: the load does not fail: the step from the load goes on to the fetch
\* with the mapping save_db wrote last when the file holds it, and with
\* the empty snapshot when the file is absent, unreadable or malformed.
C16_LoadNeverFails ==
    [][(Running /\ pc = "load" /\ (pc' = "fetch" \/ exit_code' = 1))
          => /\ pc' = "fetch"
             /\ phase' = phase
             /\ old_db' = (IF file.kind = "json" THEN file.doc ELSE EmptyDict)]_vars

\* ------------------------------------------------------------------------
\* The snapshot on disk at the end of a cycle
\* ------------------------------------------------------------------------
\* A cycle is complete: the bootstrap cycle or an iteration has run to its
\* end and main() is at the restart test, the restart or the sleep.
CycleComplete ==
    phase \in {"Polling", "Restarting"} /\ pc \in {"check", "execv", "sleep"}

\* The diff of the state file with the snapshot this cycle fetched is empty.
DurableInStep ==
    /\ ~load_db(file).raised
    /\ detect_changes(load_db(file).val, new_db) = <<>>

\* The step that ends a fetch of the snapshot the last completed cycle had
\* fetched, the state file being as the bot wrote it.
FetchesSameSnapshot ==
    /\ phase \in {"Bootstrap", "Polling"}
    /\ pc = "fetch"
    /\ pc' # "fetch"
    /\ file.kind = "json"
    /\ lastSnap.done
    /\ new_db' = lastSnap.snap

\* C17 as stated: at the end of a completed cycle the diff of the state file
\* with the fetched snapshot is empty, and a following cycle (an iteration,
\* or the bootstrap cycle after the restart) that fetches the same snapshot
\* has no changes and goes neither to the for loop nor to a save.
C17_SameSnapshotNoPostNoSave ==
    /\ [](CycleComplete => DurableInStep)
    /\ [][FetchesSameSnapshot
             => (changes' = <<>> /\ pc' \notin {"notify", "save"})]_vars

\* The baseline branch of the bootstrap cycle: an empty snapshot was loaded.
BaselineSave == phase = "Bootstrap" /\ IsFirstRun(old_db)

\* C17 as amended: the same, except that the bootstrap cycle after a restart
\* that loads an empty snapshot and fetches the empty snapshot again goes
\* to the save, which writes the empty snapshot once more.
C17_SameSnapshotNoPostSaveOnlyBaseline ==
    /\ [](CycleComplete => DurableInStep)
    /\ [][FetchesSameSnapshot
             => /\ changes' = <<>>
                /\ pc' # "notify"
                /\ pc' = "save"
                      => /\ BaselineSave
                         /\ new_db' = EmptyDict
                         /\ load_db(file).val = EmptyDict]_vars

\* An iteration or a bootstrap cycle loaded the snapshot an earlier cycle
\* had saved, fetched that snapshot again, posted nothing and saved nothing.
C17_Witness ==
    /\ CycleComplete
    /\ lastSnap = [done |-> TRUE, snap |-> new_db]
    /\ new_db # EmptyDict
    /\ old_db = new_db
    /\ file = Text(new_db)
    /\ changes = <<>>
    /\ sent = <<>>
    /\ saveState = "none"

\* ------------------------------------------------------------------------
\* Properties of compare_events
\* ------------------------------------------------------------------------
\* The event has the key with a value to compare: one that does not reduce
\* to null, which is what an absent key reads as.
HoldsValue(event, key) ==
    key \in DOMAIN event /\ C12_Reduced(key, event) # Null

\* C18: for an event of both snapshots and a tracked key that one of the two
\* records lacks and the other holds a value for, compare_events returns
\* diffs with an entry under the label of that key: the call returns and
\* the Updated record of the event has the entry.
C18_AbsentVersusPresentIsADiff ==
    pc \in {"returned", "raised"} =>
        \A id \in Keys(old_db) \cap Keys(new_db) :
            \A j \in 1..Len(fields_to_check) :
                LET key == fields_to_check[j][1]
                    o   == Lookup(old_db, id)
                    n   == Lookup(new_db, id)
                IN  ( \/ (key \notin DOMAIN o /\ HoldsValue(n, key))
                      \/ (key \notin DOMAIN n /\ HoldsValue(o, key)) )
                    => /\ pc = "returned"
                       /\ \E k \in RecordsOf("updated", id) :
                             fields_to_check[j][2] \in Keys(changes[k].diffs)

\* The Updated records returned whose diffs have a Description entry.
DescriptionUpdates ==
    {k \in 1..Len(changes) :
        changes[k].kind = "updated" /\ "Description" \in Keys(changes[k].diffs)}

\* The description of the old and of the new record of an Updated record.
DescriptionsOf(k) ==
    << Get(Lookup(old_db, IdOf(changes[k])), "description"),
       Get(changes[k].event, "description") >>

\* C19 as stated: the Description entry of the diffs compare_events returns
\* holds neither the old nor the new description.
C19_DescriptionEntryIsAMarker ==
    pc \in {"returned", "rendered"} =>
        \A k \in DescriptionUpdates :
            LET entry == Lookup(changes[k].diffs, "Description")
            IN  {entry[1], entry[2]}
                    \cap {DescriptionsOf(k)[1], DescriptionsOf(k)[2]} = {}

\* C19 as amended: the Description entry of the diffs holds the old and the
\* new description as they are; the Changes field build_embed writes from
\* the diffs has one line per entry, and the line of the Description entry
\* is the fixed marker.
C19_DescriptionMarkerInEmbedOnly ==
    /\ pc \in {"returned", "rendered"} =>
          \A k \in DescriptionUpdates :
              Lookup(changes[k].diffs, "Description") = DescriptionsOf(k)
    /\ pc = "rendered" =>
          \A k \in DescriptionUpdates :
              /\ sent[k].change = changes[k]
              /\ Len(sent[k].lines) = Len(changes[k].diffs)
              /\ sent[k].lines[PosIn(changes[k].diffs, "Description")]
                    = DescriptionMarker

\* The description and the name of an event changed: the diffs carry both
\* descriptions, the Changes field the name line and the marker.
C19_Witness ==
    /\ pc = "rendered"
    /\ old_db = << <<"1", SetKey(BaseEvent(1), "name", Str("Convoy II"))>> >>
    /\ new_db = << <<"1", SetKey(BaseEvent(1), "description", Str("Monthly convoy"))>> >>
    /\ DescriptionUpdates = {1}
    /\ changes[1].diffs =
          << <<"Name", <<Str("Convoy II"), Str("Convoy")>> >>,
             <<"Description", <<Str("Weekly convoy"), Str("Monthly convoy")>> >> >>
    /\ ~sent[1].raised
    /\ sent[1].lines = << "**Name:** 'Convoy II' -> 'Convoy'", DescriptionMarker >>

\* The raw value is a non-empty string; it parses as a timestamp.
IsText(val) == val.t = "str" /\ val.s # ""

Parses(val) == IsText(val) /\ val.s \in DOMAIN StrptimeUTC

\* The display form of the instant a raw value names.
Display(val) == Str("<t:" \o ToString(StrptimeUTC[val.s]) \o ":F>")

\* The entries of the Updated records of an id under a label: none when
\* there is no such record or it has no such entry.
EntriesOf(id, label) ==
    {Lookup(changes[k].diffs, label) :
        k \in {u \in RecordsOf("updated", id) : label \in Keys(changes[u].diffs)}}

\* C20: for an event of both snapshots and each of start_at and meetup_at
\* with a non-empty string on both sides: two strings that name the same
\* instant give no entry under the label, also when the strings differ;
\* two that name different instants give the entry of their display forms;
\* a string that does not parse is compared as it is, and gives the entry
\* with that string unless the other side is the same string.  The call
\* returns whenever the records of each event have the same description.
C20_TimestampsComparedAsDisplayed ==
    /\ ( /\ pc \in {"returned", "raised"}
         /\ \A id \in Keys(old_db) \cap Keys(new_db) :
               Get(Lookup(old_db, id), "description")
                  = Get(Lookup(new_db, id), "description") )
          => pc = "returned"
    /\ pc = "returned" =>
          \A id \in Keys(old_db) \cap Keys(new_db) :
              \A j \in {2, 3} :
                  LET key   == fields_to_check[j][1]
                      label == fields_to_check[j][2]
                      a     == Get(Lookup(old_db, id), key)
                      b     == Get(Lookup(new_db, id), key)
                  IN  (IsText(a) /\ IsText(b)) =>
                        /\ (Parses(a) /\ Parses(b)
                              /\ StrptimeUTC[a.s] = StrptimeUTC[b.s])
                               => EntriesOf(id, label) = {}
                        /\ (Parses(a) /\ Parses(b)
                              /\ StrptimeUTC[a.s] # StrptimeUTC[b.s])
                               => EntriesOf(id, label) = {<<Display(a), Display(b)>>}
                        /\ (~Parses(a) /\ Parses(b))
                               => EntriesOf(id, label) = {<<a, Display(b)>>}
                        /\ (Parses(a) /\ ~Parses(b))
                               => EntriesOf(id, label) = {<<Display(a), b>>}
                        /\ (~Parses(a) /\ ~Parses(b))
                               => EntriesOf(id, label)
                                     = (IF a = b THEN {} ELSE {<<a, b>>})

\* start_at changed from "2024-01-01 10:00:00" to "2024-1-1 10:00:00", the
\* same instant written without the leading zeros: no change is returned.
C20_Witness ==
    /\ pc = "returned"
    /\ old_db = << <<"1", BaseEvent(1)>> >>
    /\ new_db = << <<"1", SetKey(BaseEvent(1), "start_at", Str("2024-1-1 10:00:00"))>> >>
    /\ old_db # new_db
    /\ changes = <<>>

====
